---- MODULE Spec2Model ----
(***************************************************************************)
(* A model of the intent pipeline of ACE:                                  *)
(*   - IntentClassifierModel.predict / _confidence   (src/ace/ai/models.py) *)
(*   - generate_intent_dataset                       (src/ace/ai/data.py)   *)
(*   - load_entities, load_intents, save_dataset     (src/ace/ai/data.py)   *)
(*   - run_intent and the table intent_funcs         (src/ace/intents.py)   *)
(*                                                                         *)
(* Strings are sequences of one-character strings, so that strip(),        *)
(* lower() and str.format() are computed rather than assumed.              *)
(* Scores are integers (a common scale factor of the float scores); the    *)
(* confidence stdev/mean is non-negative and is carried as its square, an  *)
(* exact rational <<numerator, denominator>>, and compared by cross        *)
(* multiplication.                                                         *)
(***************************************************************************)
EXTENDS Integers, Sequences, FiniteSets, TLC

VARIABLES
    threshold,      \* self.config.threshold, a rational <<p, q>>, q > 0
    labels,         \* the labels of the loaded scorer self.nlp, in its order
    text,           \* argument of the latest predict call
    cats,           \* doc.cats of the latest scorer call
    nlp_calls,      \* the texts self.nlp has been called with, in order
    confidence,     \* what the latest self._confidence call gave
    outcome,        \* how the latest predict call ended
    raw_intents,    \* argument of generate_intent_dataset
    raw_entities,   \* argument of generate_intent_dataset
    num_examples,   \* argument of generate_intent_dataset
    dataset,        \* how generate_intent_dataset ended
    directory,      \* the files of the scanned directory: name -> content
    loaded,         \* how the latest load_entities / load_intents call ended
    fs_dirs,        \* the directories that exist, as paths
    fs_files,       \* the files that exist: path -> content
    save_args,      \* arguments of save_dataset
    saved,          \* how save_dataset ended
    intent_funcs,   \* the dispatch table: name -> Intent
    handler_calls,  \* the handler calls made so far, with their arguments
    ran,            \* the latest run_intent call and how it ended
    world,          \* what the outside world did in the latest handler call
    cli_pc,         \* where CLI.run is: "start", "read", "dispatch", "done", "raised"
    show_header,    \* CLI.show_header
    header,         \* CLI.header
    outputs,        \* CLI.outputs, a list of output objects
    header_outputs, \* CLI.header_outputs, a list of output objects
    prefix,         \* the attribute prefix of each output object
    broadcasts,     \* what the output objects were asked to broadcast, in order
    pending,        \* what get_intent returned in this iteration
    turns,          \* the number of user inputs read so far
    cli_result,     \* what run_intent gave in the latest iteration
    gui_state,      \* the GUI window: "open", "closing" (destroy scheduled), "destroyed"
    gui_header,     \* whether GUI.display_header shows the header as text
    chat_box,       \* the chat box: its text up to the last blank line, in pieces
    chat_tail,      \* the text of the chat box after the last blank line
    timers,         \* the callbacks scheduled with root.after, in the order they are due
    sent,           \* the messages the user has sent, in order
    classified,     \* what each _respond call handed to the classifier, in order
    now,            \* the clock of the weather cache, in hours
    cache,          \* the TTLCache of _get_response: key -> value and expiry
    lru,            \* the keys of the cache, least recently used first
    history         \* the calls of _get_response so far, in order

vars == <<threshold, labels, text, cats, nlp_calls, confidence, outcome,
          raw_intents, raw_entities, num_examples, dataset,
          directory, loaded, fs_dirs, fs_files, save_args, saved,
          intent_funcs, handler_calls, ran, world,
          cli_pc, show_header, header, outputs, header_outputs, prefix,
          broadcasts, pending, turns, cli_result,
          gui_state, gui_header, chat_box, chat_tail, timers, sent, classified,
          now, cache, lru, history>>

predictVars == <<threshold, labels, text, cats, nlp_calls, confidence, outcome>>
genVars == <<raw_intents, raw_entities, num_examples, dataset>>
loadVars == <<directory, loaded>>
saveVars == <<fs_dirs, fs_files, save_args, saved>>
dispatchVars == <<intent_funcs, handler_calls, ran, world>>
cliVars == <<cli_pc, show_header, header, outputs, header_outputs, prefix,
             broadcasts, pending, turns, cli_result>>
guiVars == <<gui_state, gui_header, chat_box, chat_tail, timers, sent, classified>>
cacheVars == <<now, cache, lru, history>>

\* the variables outside each group
notPredictVars == <<genVars, loadVars, saveVars, dispatchVars, cliVars, guiVars, cacheVars>>
notGenVars == <<predictVars, loadVars, saveVars, dispatchVars, cliVars, guiVars, cacheVars>>
notLoadVars == <<predictVars, genVars, saveVars, dispatchVars, cliVars, guiVars, cacheVars>>
notSaveVars == <<predictVars, genVars, loadVars, dispatchVars, cliVars, guiVars, cacheVars>>
notDispatchVars == <<predictVars, genVars, loadVars, saveVars, cliVars, guiVars, cacheVars>>
notCliVars == <<predictVars, genVars, loadVars, saveVars, dispatchVars, guiVars, cacheVars>>
notGuiVars == <<predictVars, genVars, loadVars, saveVars, dispatchVars, cliVars, cacheVars>>
notCacheVars == <<predictVars, genVars, loadVars, saveVars, dispatchVars, cliVars, guiVars>>

----------------------------------------------------------------------------
(* Bounds                                                                  *)

MaxTextLen == 2
MaxLabels == 3
MaxScore == 3
MaxTemplates == 2
MaxValues == 2
MaxNumExamples == 3
MaxFileLen == 2
MaxUttLen == 1
MaxRows == 2
MaxArgs == 1
MaxRuns == 2
MaxTurns == 2
MaxMessages == 2
MaxCalls == 3
MaxTime == 3
\* the capacity of the weather cache (maxsize=1000 in the program), scaled
\* down so that a full cache is within reach
maxsize == 1

----------------------------------------------------------------------------
(* Generic helpers                                                         *)

Min(a, b) == IF a <= b THEN a ELSE b
Max(a, b) == IF a >= b THEN a ELSE b

Range(s) == {s[i] : i \in 1..Len(s)}

\* the concatenation of a sequence of sequences
RECURSIVE Concat(_)
Concat(ss) == IF ss = <<>> THEN <<>> ELSE Head(ss) \o Concat(Tail(ss))

RECURSIVE SumSeq(_)
SumSeq(s) == IF s = <<>> THEN 0 ELSE Head(s) + SumSeq(Tail(s))

SeqsUpTo(S, n) == UNION {[1..k -> S] : k \in 0..n}

\* rationals <<a, b>> with b > 0
RatLess(x, y) == x[1] * y[2] < y[1] * x[2]
RatEq(x, y) == x[1] * y[2] = y[1] * x[2]

----------------------------------------------------------------------------
(* Utterances                                                              *)

None == <<"None">>
Chars == {" ", "a", "A"}
Texts == {None} \cup SeqsUpTo(Chars, MaxTextLen)

\* Python truthiness of the argument: None and "" are falsy
Truthy(t) == t # None /\ t # <<>>

RECURSIVE lstrip(_)
lstrip(s) == IF s # <<>> /\ Head(s) = " " THEN lstrip(Tail(s)) ELSE s

RECURSIVE rstrip(_)
rstrip(s) ==
    IF s # <<>> /\ s[Len(s)] = " " THEN rstrip(SubSeq(s, 1, Len(s) - 1)) ELSE s

strip(s) == rstrip(lstrip(s))

lower(s) == [i \in 1..Len(s) |-> IF s[i] = "A" THEN "a" ELSE s[i]]

\* models.py:203  text.strip().lower() if text else ""
NormalizeLeftOnly(t) == IF Truthy(t) THEN lower(lstrip(t)) ELSE <<>>
Normalize(t) == IF Truthy(t) THEN lower(strip(t)) ELSE <<>>

----------------------------------------------------------------------------
(* Score maps: a dict in insertion order, as a sequence of items           *)

LabelOrder == <<"greeting", "goodbye", "open_app", "close_app", "current_weather">>

Thresholds == {<<0, 1>>, <<1, 2>>, <<1, 1>>, <<3, 2>>}

CatsOf(ls, scores) == [i \in 1..Len(ls) |-> [label |-> ls[i], score |-> scores[i]]]

Scores(c) == [i \in 1..Len(c) |-> c[i].score]

\* max(doc.cats, key=doc.cats.get): the first key with the greatest value
ArgMax(c) ==
    LET i == CHOOSE j \in 1..Len(c) :
                 /\ \A k \in 1..Len(c) : c[k].score <= c[j].score
                 /\ \A k \in 1..(j - 1) : c[k].score < c[j].score
    IN c[i].label

\* statistics.mean(xs) as a rational
mean(xs) == <<SumSeq(xs), Len(xs)>>

\* statistics.stdev(xs) squared: the sample variance, sum of squared
\* deviations from the mean over n - 1.  With S the sum, n*x - S is n times
\* the deviation of x, so the variance is Sum (n*x - S)^2 / (n^2 * (n - 1)).
SqDevFromZero(xs) ==
    LET n == Len(xs)
    IN SumSeq([i \in 1..n |-> (n * xs[i]) * (n * xs[i])])
SqDev(xs) ==
    LET n == Len(xs)
        S == SumSeq(xs)
    IN SumSeq([i \in 1..n |-> (n * xs[i] - S) * (n * xs[i] - S)])

pstdevSq(xs) == <<SqDev(xs), Len(xs) * Len(xs) * Len(xs)>>
stdevSq(xs) == <<SqDev(xs), Len(xs) * Len(xs) * (Len(xs) - 1)>>

\* models.py:327-351.  raises # "" when the call raises; otherwise sq is the
\* square of the returned confidence.
_confidence(predictions) ==
    LET xs == Scores(predictions)
        m == mean(xs)
        v == stdevSq(xs)
    IN IF \A i \in 1..Len(xs) : xs[i] = 0
       THEN [raises |-> "", sq |-> <<0, 1>>]
       ELSE IF Len(xs) < 2
       THEN [raises |-> "StatisticsError", sq |-> <<0, 1>>]
       ELSE [raises |-> "", sq |-> <<v[1] * m[2] * m[2], v[2] * m[1] * m[1]>>]

Sq(r) == <<r[1] * r[1], r[2] * r[2]>>

\* models.py:206-210  the comparison  self._confidence(doc.cats) < threshold
BelowOrAt(conf, thr) == RatLess(conf.sq, Sq(thr)) \/ RatEq(conf.sq, Sq(thr))
Below(conf, thr) == RatLess(conf.sq, Sq(thr))

NoCats == <<>>
NoOutcome == [kind |-> "none", value |-> ""]
NotCalled == [raises |-> "not called", sq |-> <<0, 1>>]
NotRun == [name |-> "", args |-> <<>>, kind |-> "none", response |-> "", should_exit |-> FALSE]
NoWorld == [of |-> "nothing"]
NotSaved == [kind |-> "none", value |-> "", names |-> <<>>]

\* models.py:204-210, after the scorer returned c: max() of an empty dict
\* raises ValueError before _confidence is reached
ConfidenceCall(c) == IF Len(c) = 0 THEN NotCalled ELSE _confidence(c)

PredictOutcome(c, thr) ==
    IF Len(c) = 0
    THEN [kind |-> "raise", value |-> "ValueError"]
    ELSE LET prediction == ArgMax(c)
             conf == ConfidenceCall(c)
         IN IF conf.raises # ""
            THEN [kind |-> "raise", value |-> conf.raises]
            ELSE [kind |-> "return",
                  value |-> IF Below(conf, thr) THEN "unknown" ELSE prediction]

\* IntentClassifierModel.predict(t): one whole call.  predict keeps no state
\* from one call to the next (self.config and self.nlp are only read), so a
\* behaviour is one call on a freshly constructed model.
predict(t) ==
    /\ outcome.kind = "none"
    /\ \E scores \in [1..Len(labels) -> 0..MaxScore] :
           LET c == CatsOf(labels, scores)
           IN /\ text' = t
              /\ nlp_calls' = Append(nlp_calls, Normalize(t))
              /\ cats' = c
              /\ confidence' = ConfidenceCall(c)
              /\ outcome' = PredictOutcome(c, threshold)
    /\ UNCHANGED <<threshold, labels>>
    /\ UNCHANGED notPredictVars

----------------------------------------------------------------------------
(* Dataset generation                                                      *)

\* A template is a sequence of items: a literal character, or a
\* placeholder {name}.
Lit(c) == [k |-> "lit", v |-> c]
Ph(e) == [k |-> "ph", v |-> e]

\* re.findall(r"{(.*?)}", template): the placeholder names, in order of
\* occurrence, repetitions included
RECURSIVE findall(_)
findall(template) ==
    IF template = <<>> THEN <<>>
    ELSE (IF Head(template).k = "ph" THEN <<Head(template).v>> ELSE <<>>)
             \o findall(Tail(template))

\* the template as the string it is: a placeholder-free template is a
\* sequence of characters
TemplateText(template) == [i \in 1..Len(template) |-> template[i].v]

\* itertools.product(*lists): tuples in odometer order, the last list
\* varying fastest
RECURSIVE productFirstFastest(_)
productFirstFastest(lists) ==
    IF lists = <<>> THEN << <<>> >>
    ELSE LET rest == productFirstFastest(Tail(lists))
         IN Concat([j \in 1..Len(rest) |->
                     [i \in 1..Len(Head(lists)) |-> <<Head(lists)[i]>> \o rest[j]]])
RECURSIVE product(_)
product(lists) ==
    IF lists = <<>> THEN << <<>> >>
    ELSE LET rest == product(Tail(lists))
         IN Concat([i \in 1..Len(Head(lists)) |->
                     [j \in 1..Len(rest) |-> <<Head(lists)[i]>> \o rest[j]]])

\* dict(zip(entities, combination)): a repeated key keeps its last value
ZipDict(entities, combination) ==
    [e \in Range(entities) |->
        combination[CHOOSE i \in 1..Len(entities) :
                        /\ entities[i] = e
                        /\ \A j \in (i + 1)..Len(entities) : entities[j] # e]]

\* template.format(**d)
format(template, d) ==
    Concat([i \in 1..Len(template) |->
              IF template[i].k = "lit" THEN <<template[i].v>> ELSE d[template[i].v]])

\* data.py:260-269  every combination of the template's entities, formatted
Combinations(template, entities, ents) ==
    LET combos == product([i \in 1..Len(entities) |-> ents[entities[i]]])
    IN [c \in 1..Len(combos) |-> format(template, ZipDict(entities, combos[c]))]

\* data.py:247-272  the body of the loop over the templates of an intent
TemplateStepClearing(examples, template, ents) ==
    LET entities == findall(template)
    IN IF entities = <<>>
       THEN Append(examples, TemplateText(template))
       ELSE IF \E i \in 1..Len(entities) : entities[i] \notin DOMAIN ents
       THEN <<>>
       ELSE Combinations(template, entities, ents)
TemplateStep(examples, template, ents) ==
    LET entities == findall(template)
    IN IF entities = <<>>
       THEN Append(examples, TemplateText(template))
       ELSE IF \E i \in 1..Len(entities) : entities[i] \notin DOMAIN ents
       THEN examples                                 \* KeyError: continue
       ELSE Combinations(template, entities, ents)   \* examples = list(...)

RECURSIVE ProcessTemplates(_, _, _)
ProcessTemplates(templates, examples, ents) ==
    IF templates = <<>> THEN examples
    ELSE ProcessTemplates(Tail(templates),
                          TemplateStep(examples, Head(templates), ents), ents)

\* examples[:n]
SliceOffByOne(s, n) ==
    IF n >= 0 THEN SubSeq(s, 1, Min(n + 1, Len(s)))
    ELSE SubSeq(s, 1, Max(0, Len(s) + n))
Slice(s, n) ==
    IF n >= 0 THEN SubSeq(s, 1, Min(n, Len(s)))
    ELSE SubSeq(s, 1, Max(0, Len(s) + n))

\* data.py:246-274  the value stored for one intent
IntentExamples(templates, ents, n) ==
    Range(Slice(ProcessTemplates(templates, <<>>, ents), n))

\* data.py:242-283
GenerateOutcome(intents, ents, n) ==
    LET ds == [i \in 1..Len(intents) |->
                 [intent |-> intents[i].intent,
                  examples |-> IntentExamples(intents[i].templates, ents, n)]]
    IN IF ds = <<>>
       THEN [kind |-> "raise", value |-> "ValueError"]
       ELSE [kind |-> "return", value |-> ds]

\* generate_intent_dataset(raw_intents, raw_entities, num_examples): one call
generate_intent_dataset ==
    /\ dataset.kind = "none"
    /\ dataset' = GenerateOutcome(raw_intents, raw_entities, num_examples)
    /\ UNCHANGED <<raw_intents, raw_entities, num_examples>>
    /\ UNCHANGED notGenVars

\* Inputs of the generation
IntentOrder == <<"greet", "goodbye">>

Hello == <<Lit("h")>>
HelloName == <<Lit("h"), Ph("name")>>
NameAge == <<Ph("name"), Ph("age")>>
TemplatePool == {Hello, HelloName, NameAge}

EntityValues ==
    [name |-> {<<"x">>, <<"x", "y">>}, age |-> {<<"y">>, <<"y", "y">>}]
EntityNames == DOMAIN EntityValues

Gazetteers ==
    UNION {{g \in [D -> UNION {SeqsUpTo(EntityValues[e], MaxValues) : e \in D}] :
               \A e \in D : g[e] \in SeqsUpTo(EntityValues[e], MaxValues)}
           : D \in SUBSET EntityNames}

IntentSets ==
    UNION {{[i \in 1..k |-> [intent |-> IntentOrder[i], templates |-> ts[i]]]
               : ts \in [1..k -> SeqsUpTo(TemplatePool, MaxTemplates)]}
           : k \in 0..Len(IntentOrder)}

GenIdle ==
    /\ raw_intents = <<>>
    /\ raw_entities = <<>>
    /\ num_examples = 0
    /\ dataset = NoOutcome

PredictIdle ==
    /\ threshold = <<1, 2>>
    /\ labels = <<>>
    /\ text = None
    /\ cats = NoCats
    /\ nlp_calls = <<>>
    /\ confidence = NotCalled
    /\ outcome = NoOutcome

----------------------------------------------------------------------------
(* Loading the gazetteer and the templates                                 *)

\* str.splitlines() over the characters "x" and "\n": a trailing newline
\* ends the last line and adds none, a blank line is an empty string
RECURSIVE splitlines(_)
splitlines(s) ==
    IF s = <<>> THEN <<>>
    ELSE IF \A i \in 1..Len(s) : s[i] # "\n" THEN <<s>>
    ELSE LET i == CHOOSE j \in 1..Len(s) :
                      s[j] = "\n" /\ \A k \in 1..(j - 1) : s[k] # "\n"
         IN <<SubSeq(s, 1, i - 1)>> \o splitlines(SubSeq(s, i + 1, Len(s)))

\* Path.glob("*" + suffix): the files of the directory itself with that
\* extension
glob(dir, suffix) == {f \in DOMAIN dir : f.suffix = suffix}

\* the file of a given stem among files (stems are unique per extension)
FileOfStem(files, stem) == CHOOSE f \in files : f.stem = stem

\* data.py:162-179
LoadEntitiesNoRaise(dir) ==
    LET kept == {f \in glob(dir, ".entity") : splitlines(dir[f]) # <<>>}
        entities == [st \in {f.stem : f \in kept} |->
                        splitlines(dir[FileOfStem(kept, st)])]
    IN [fn |-> "load_entities", kind |-> "return", value |-> entities]
LoadEntitiesOutcome(dir) ==
    LET kept == {f \in glob(dir, ".entity") : splitlines(dir[f]) # <<>>}
        entities == [st \in {f.stem : f \in kept} |->
                        splitlines(dir[FileOfStem(kept, st)])]
    IN IF DOMAIN entities = {}
       THEN [fn |-> "load_entities", kind |-> "raise", value |-> "FileNotFoundError"]
       ELSE [fn |-> "load_entities", kind |-> "return", value |-> entities]

\* data.py:204-214
LoadIntentsOutcome(dir) ==
    LET files == glob(dir, ".intent")
        intents == [st \in {f.stem : f \in files} |->
                       splitlines(dir[FileOfStem(files, st)])]
    IN IF DOMAIN intents = {}
       THEN [fn |-> "load_intents", kind |-> "raise", value |-> "FileNotFoundError"]
       ELSE [fn |-> "load_intents", kind |-> "return", value |-> intents]

NotLoaded == [fn |-> "", kind |-> "none", value |-> ""]

\* load_entities(directory): one call
load_entities ==
    /\ loaded.kind = "none"
    /\ loaded' = LoadEntitiesOutcome(directory)
    /\ UNCHANGED directory
    /\ UNCHANGED notLoadVars

\* load_intents(directory): one call
load_intents ==
    /\ loaded.kind = "none"
    /\ loaded' = LoadIntentsOutcome(directory)
    /\ UNCHANGED directory
    /\ UNCHANGED notLoadVars

\* Inputs of the loaders
FileChars == {"x", "\n"}
FileNames ==
    {[stem |-> "name", suffix |-> ".entity"], [stem |-> "age", suffix |-> ".entity"],
     [stem |-> "greet", suffix |-> ".intent"], [stem |-> "notes", suffix |-> ".txt"]}
Directories ==
    UNION {[D -> SeqsUpTo(FileChars, MaxFileLen)] : D \in SUBSET FileNames}

LoadIdle ==
    /\ directory = <<>>
    /\ loaded = NotLoaded

SaveIdle ==
    /\ fs_dirs = {}
    /\ fs_files = <<>>
    /\ save_args = <<>>
    /\ saved = NotSaved

DispatchIdle ==
    /\ intent_funcs = <<>>
    /\ handler_calls = <<>>
    /\ ran = NotRun
    /\ world = NoWorld

----------------------------------------------------------------------------
(* Saving a dataset                                                        *)

\* PurePath.suffix of a file name: from the last dot on, unless that dot is
\* the first or the last character of the name
suffix(name) ==
    LET dots == {i \in 1..Len(name) : name[i] = "."}
    IN IF dots = {} THEN <<>>
       ELSE LET i == CHOOSE d \in dots : \A e \in dots : e <= d
            IN IF 1 < i /\ i < Len(name) THEN SubSeq(name, i, Len(name)) ELSE <<>>

DotCsv == <<".", "c", "s", "v">>

\* Path.mkdir(parents=True, exist_ok=True): the path and all its parents
mkdirNoParents(dirs, path) == dirs \cup {path}
mkdir(dirs, path) == dirs \cup {SubSeq(path, 1, n) : n \in 1..Len(path)}

\* csv.writer, excel dialect, QUOTE_MINIMAL: a field holding the delimiter,
\* the quote character or a line terminator character is written between
\* quotes, its quotes doubled
NeedsQuotes(field) == \E i \in 1..Len(field) : field[i] \in {",", "\"", "\r", "\n"}

csv_field_raw(field) == field
csv_field(field) ==
    IF NeedsQuotes(field)
    THEN <<"\"">> \o Concat([i \in 1..Len(field) |->
                               IF field[i] = "\"" THEN <<"\"", "\"">> ELSE <<field[i]>>])
                  \o <<"\"">>
    ELSE field

\* writer.writerow([a, b])
writerow(a, b) == csv_field(a) \o <<",">> \o csv_field(b) \o <<"\r", "\n">>

\* data.py:347-352  the rows of the file, the examples of an intent in the
\* order the iteration over them gives
_save_as_csv(ds) ==
    writerow(<<"phrase">>, <<"intent">>)
        \o Concat([i \in 1..Len(ds) |->
                     Concat([j \in 1..Len(ds[i].examples) |->
                               writerow(ds[i].examples[j], ds[i].intent)])])

\* data.py:315-324  handlers.get(save_path.suffix)
handler_or_csv(sfx) == "_save_as_csv"
handler(sfx) == IF sfx = DotCsv THEN "_save_as_csv" ELSE "None"

\* save_dataset(dataset, directory, filename): one call
save_dataset ==
    /\ saved.kind = "none"
    /\ LET save_path == Append(save_args.directory, save_args.filename)
           sfx == suffix(save_args.filename)
       IN /\ fs_dirs' = mkdir(fs_dirs, save_args.directory)
          /\ IF handler(sfx) = "_save_as_csv"
             THEN /\ fs_files' = [q \in DOMAIN fs_files \cup {save_path} |->
                                    IF q = save_path THEN _save_as_csv(save_args.dataset)
                                    ELSE fs_files[q]]
                  /\ saved' = [kind |-> "return", value |-> "None", names |-> <<>>]
             ELSE /\ fs_files' = fs_files
                  /\ saved' = [kind |-> "raise", value |-> "ValueError", names |-> sfx]
    /\ UNCHANGED save_args
    /\ UNCHANGED notSaveVars

\* Inputs of save_dataset
UttChars == {"a", ",", "\""}
Utterances == SeqsUpTo(UttChars, MaxUttLen)

\* datasets of at most two intents and MaxRows examples in all; the
\* examples of an intent are in the order its list or set is iterated
Datasets ==
    {<<>>}
    \cup {<<[intent |-> <<IntentOrder[1]>>, examples |-> e]>> :
             e \in SeqsUpTo(Utterances, MaxRows)}
    \cup UNION {{<<[intent |-> <<IntentOrder[1]>>, examples |-> e1],
                  [intent |-> <<IntentOrder[2]>>, examples |-> e2]>> :
                     e1 \in [1..n -> Utterances],
                     e2 \in SeqsUpTo(Utterances, MaxRows - n)}
                : n \in 0..MaxRows}

Filenames ==
    {<<"d", ".", "c", "s", "v">>, <<"d", ".", "t", "x", "t">>, <<"d">>,
     <<".", "c", "s", "v">>}

TargetDir == <<"out", "ds">>
OldContent == <<"o", "l", "d">>

\* the file systems a call can start from: some of the target's parents, and
\* in an existing target directory possibly a file of the given name
FileSystems(name) ==
    {[dirs |-> {SubSeq(TargetDir, 1, n) : n \in 1..k}, files |-> <<>>] :
        k \in 0..Len(TargetDir)}
    \cup {[dirs |-> mkdir({}, TargetDir),
           files |-> [q \in {Append(TargetDir, name)} |-> OldContent]]}

----------------------------------------------------------------------------
(* The dispatch table and run_intent                                       *)

\* intents.py:66-70  what the decorator _register(**kwargs) stores for func
Intent(func, kwargs) ==
    [func |-> func,
     should_exit |-> IF "should_exit" \in DOMAIN kwargs THEN kwargs["should_exit"] ELSE FALSE,
     requires_text |-> IF "requires_text" \in DOMAIN kwargs THEN kwargs["requires_text"] ELSE FALSE]

NoKwargs == <<>>
ShouldExit == [should_exit |-> TRUE]
RequiresText == [requires_text |-> TRUE]

\* the decorated functions of the module, in definition order
RegistrationsWithoutUnknown ==
    <<[func |-> "greeting", kwargs |-> NoKwargs],
      [func |-> "goodbye", kwargs |-> ShouldExit],
      [func |-> "open_app", kwargs |-> RequiresText],
      [func |-> "close_app", kwargs |-> RequiresText],
      [func |-> "current_weather", kwargs |-> RequiresText],
      [func |-> "tomorrow_weather", kwargs |-> RequiresText],
      [func |-> "show_todo_list", kwargs |-> NoKwargs],
      [func |-> "add_todo", kwargs |-> RequiresText]>>
Registrations ==
    <<[func |-> "unknown", kwargs |-> NoKwargs],
      [func |-> "greeting", kwargs |-> NoKwargs],
      [func |-> "goodbye", kwargs |-> ShouldExit],
      [func |-> "open_app", kwargs |-> RequiresText],
      [func |-> "close_app", kwargs |-> RequiresText],
      [func |-> "current_weather", kwargs |-> RequiresText],
      [func |-> "tomorrow_weather", kwargs |-> RequiresText],
      [func |-> "show_todo_list", kwargs |-> NoKwargs],
      [func |-> "add_todo", kwargs |-> RequiresText]>>

\* intent_funcs once the module is loaded: each decorator has stored its
\* function under the function's name
ModuleLoad ==
    [name \in {Registrations[i].func : i \in 1..Len(Registrations)} |->
        LET i == CHOOSE j \in 1..Len(Registrations) : Registrations[j].func = name
        IN Intent(name, Registrations[i].kwargs)]

\* the number of parameters of a handler
Arity(func) ==
    IF func \in {"open_app", "close_app", "current_weather", "tomorrow_weather", "add_todo"}
    THEN 1 ELSE 0

\* what a handler returns; the handlers that act on the outside world give a
\* response that depends on it, kept opaque here
Response(func, args) ==
    IF func = "unknown" THEN "Sorry, I don't know what you mean."
    ELSE IF func = "greeting" THEN "Hello!"
    ELSE IF func = "goodbye" THEN "Goodbye!"
    ELSE "response of the handler"

\* The outside world as one handler call meets it.
\* For show_todo_list: what TodoistAPI(os.environ[...]).get_tasks does, the
\* tasks being those that are due, cleaned and in priority order.
TaskLists == {<<>>, <<"Task 1">>, <<"Task 1", "Task 2">>}
TodoWorlds ==
    {[of |-> "todo", raises |-> "", tasks |-> ts] : ts \in TaskLists}
    \cup {[of |-> "todo", raises |-> e, tasks |-> <<>>] :
             e \in {"requests.exceptions.ConnectionError", "KeyError", "HTTPError"}}

\* For the weather handlers: whether the location and the API key can be
\* read from the environment, and what the HTTP request gives: a connection
\* error, or a body whose field cod is an int or a str as the service sends
\* it (success is the int 200 for the current weather and the str "200" for
\* the forecast).
Cod(isInt, digits) == [int |-> isInt, digits |-> digits]
ErrorCods == {Cod(TRUE, "401"), Cod(FALSE, "404"), Cod(TRUE, "429"), Cod(TRUE, "500")}
SuccessCod(tag) == IF tag = "current" THEN Cod(TRUE, "200") ELSE Cod(FALSE, "200")
WeatherWorlds(tag) ==
    {[of |-> "weather", env |-> e, http |-> "not reached", cod |-> Cod(TRUE, "0")] :
        e \in {"no ACE_HOME", "no ACE_WEATHER_KEY"}}
    \cup {[of |-> "weather", env |-> "ok", http |-> "ConnectionError", cod |-> Cod(TRUE, "0")]}
    \cup {[of |-> "weather", env |-> "ok", http |-> "body", cod |-> c] :
             c \in ErrorCods \cup {SuccessCod(tag)}}

HandlerWorlds(func) ==
    IF func = "show_todo_list" THEN TodoWorlds
    ELSE IF func = "current_weather" THEN WeatherWorlds("current")
    ELSE IF func = "tomorrow_weather" THEN WeatherWorlds("tomorrow")
    ELSE {NoWorld}

Returns(v) == [kind |-> "return", value |-> v]
Raises(e) == [kind |-> "raise", value |-> e]

\* apis.py:278-305  TodoAPI.tasks_today: the dict it returns, as a function
\* from its keys, or the exception that leaves it
tasks_today_connection_only(w) ==
    IF w.raises = "" THEN Returns([k \in {"error", "tasks"} |->
                                      IF k = "error" THEN "None" ELSE w.tasks])
    ELSE IF w.raises = "requests.exceptions.ConnectionError"
    THEN Returns([k \in {"error"} |-> "Connection error: Check your internet connection."])
    ELSE Raises(w.raises)
tasks_today(w) ==
    IF w.raises = "" THEN Returns([k \in {"error", "tasks"} |->
                                      IF k = "error" THEN "None" ELSE w.tasks])
    ELSE IF w.raises = "requests.exceptions.ConnectionError"
    THEN Returns([k \in {"error"} |-> "Connection error: Check your internet connection."])
    ELSE IF w.raises = "KeyError"
    THEN Returns([k \in {"error"} |-> "API key error: Check your API key is setup correctly."])
    ELSE Raises(w.raises)

\* the f-strings of show_todo_list, for the values that occur here
SorryTasks(error) ==
    IF error = "Connection error: Check your internet connection."
    THEN "Sorry, I couldn't get your tasks. Connection error: Check your internet connection."
    ELSE "Sorry, I couldn't get your tasks. API key error: Check your API key is setup correctly."
TasksToday(tasks) ==
    IF Len(tasks) = 1 THEN "You have 1 task today. The task is 'Task 1'."
    ELSE "You have 2 tasks today. The first one is 'Task 1'."

\* intents.py:327-354  show_todo_list()
show_todo_list(w) ==
    LET got == tasks_today(w)
    IN IF got.kind = "raise" THEN got
       ELSE LET task_list == got.value
            IN IF task_list["error"] # "None"
               THEN Returns(SorryTasks(task_list["error"]))
               ELSE IF "tasks" \notin DOMAIN task_list THEN Raises("KeyError")
               ELSE IF Len(task_list["tasks"]) = 0 THEN Returns("You have no tasks today.")
               ELSE Returns(TasksToday(task_list["tasks"]))

\* apis.py:204-239  WeatherAPI._get_response: the body, None after a
\* connection error, a KeyError when the key is not in the environment,
\* and any other exception of the request as it is
_get_response(w) ==
    IF w.env = "no ACE_WEATHER_KEY" THEN Raises("KeyError")
    ELSE IF w.http = "ConnectionError" THEN Returns([none |-> TRUE, cod |-> w.cod])
    ELSE IF w.http = "body" THEN Returns([none |-> FALSE, cod |-> w.cod])
    ELSE Raises(w.http)

\* apis.py:96-114 and 142-161  get_current_weather / get_tomorrow_weather:
\* None, or a dict of which the handlers read the key code; report tells
\* whether the dict has the weather fields
NoWeather == [none |-> TRUE, code |-> "", report |-> FALSE]
get_weather(tag, w) ==
    IF w.env = "no ACE_HOME" THEN Raises("KeyError")
    ELSE LET response == _get_response(w)
         IN IF response.kind = "raise" THEN response
            ELSE IF response.value.none THEN Returns(NoWeather)
            ELSE IF response.value.cod = SuccessCod(tag)
            THEN Returns([none |-> FALSE, code |-> response.value.cod.digits, report |-> TRUE])
            ELSE Returns([none |-> FALSE, code |-> response.value.cod.digits, report |-> FALSE])

\* the f-strings of the handlers on code "200", for the location London
WeatherReport(tag) ==
    IF tag = "current" THEN "The weather in London is 10.0{DEGREES}C and clear sky."
    ELSE "The weather tomorrow in London will be 10.0{DEGREES}C and clear sky."

ConnectionApology ==
    "Sorry, I couldn't get the weather for you. Check your connection and try again."

\* intents.py:253-278 and 299-324  what a weather handler answers to the
\* API's result; a dict without the weather fields under code "200" would
\* make the handler raise KeyError
WeatherAnswerNoFallback(tag, got) ==
    IF got.kind = "raise" THEN got
    ELSE IF got.value.none THEN Returns(ConnectionApology)
    ELSE IF got.value.code = "200"
    THEN (IF got.value.report THEN Returns(WeatherReport(tag)) ELSE Raises("KeyError"))
    ELSE IF got.value.code = "401"
    THEN Returns("The configured weather API key is invalid. Please check the 'ACE_WEATHER_KEY' environment variable.")
    ELSE IF got.value.code = "404"
    THEN Returns("Couldn't find weather data for that location (London). Check the spelling and try again.")
    ELSE IF got.value.code = "429"
    THEN Returns("The configured weather API key has been used too many times. Please wait and try again.")
    ELSE Returns("None")
WeatherAnswer(tag, got) ==
    IF got.kind = "raise" THEN got
    ELSE IF got.value.none THEN Returns(ConnectionApology)
    ELSE IF got.value.code = "200"
    THEN (IF got.value.report THEN Returns(WeatherReport(tag)) ELSE Raises("KeyError"))
    ELSE IF got.value.code = "401"
    THEN Returns("The configured weather API key is invalid. Please check the 'ACE_WEATHER_KEY' environment variable.")
    ELSE IF got.value.code = "404"
    THEN Returns("Couldn't find weather data for that location (London). Check the spelling and try again.")
    ELSE IF got.value.code = "429"
    THEN Returns("The configured weather API key has been used too many times. Please wait and try again.")
    ELSE Returns(ConnectionApology)

current_weather(w) == WeatherAnswer("current", get_weather("current", w))
tomorrow_weather(w) == WeatherAnswer("tomorrow", get_weather("tomorrow", w))

\* the call intent.func(...) with the outside world w
HandlerOutcome(func, args, w) ==
    IF func = "show_todo_list" THEN show_todo_list(w)
    ELSE IF func = "current_weather" THEN current_weather(w)
    ELSE IF func = "tomorrow_weather" THEN tomorrow_weather(w)
    ELSE Returns(Response(func, args))

\* intents.py:100  the arguments the handler is called with
HandlerArgsAlways(intent, args) == args
HandlerArgs(intent, args) == IF intent.requires_text THEN args ELSE <<>>

\* intents.py:98-103  run_intent(intent_name, *args) with the outside world
\* w: how the call ends and the handler call it made, if any.
\* intent_funcs.get(name, unknown) gives the function unknown itself, not an
\* Intent, for a name that is not registered, and a function has no
\* attribute requires_text.
RunResult(intent_name, args, w) ==
    IF intent_name \notin DOMAIN intent_funcs
    THEN [kind |-> "raise", response |-> "AttributeError", should_exit |-> FALSE,
          calls |-> <<>>]
    ELSE LET intent == intent_funcs[intent_name]
             passed == HandlerArgs(intent, args)
             done == HandlerOutcome(intent.func, passed, w)
         IN IF Len(passed) # Arity(intent.func)
            THEN [kind |-> "raise", response |-> "TypeError", should_exit |-> FALSE,
                  calls |-> <<[func |-> intent.func, args |-> passed]>>]
            ELSE [kind |-> done.kind, response |-> done.value,
                  should_exit |-> IF done.kind = "return" THEN intent.should_exit ELSE FALSE,
                  calls |-> <<[func |-> intent.func, args |-> passed]>>]

\* the outside worlds the call run_intent(intent_name, *args) can meet
RunWorlds(intent_name, args) ==
    IF intent_name \notin DOMAIN intent_funcs THEN {NoWorld}
    ELSE IF Len(HandlerArgs(intent_funcs[intent_name], args)) # Arity(intent_funcs[intent_name].func)
    THEN {NoWorld}
    ELSE HandlerWorlds(intent_funcs[intent_name].func)

\* run_intent(intent_name, *args): one call
run_intent(intent_name, args) ==
    /\ Len(handler_calls) < MaxRuns
    /\ \E w \in RunWorlds(intent_name, args) :
          LET result == RunResult(intent_name, args, w)
          IN /\ world' = w
             /\ handler_calls' = handler_calls \o result.calls
             /\ ran' = [name |-> intent_name, args |-> args, kind |-> result.kind,
                        response |-> result.response, should_exit |-> result.should_exit]
    /\ UNCHANGED intent_funcs
    /\ UNCHANGED notDispatchVars

\* Inputs of run_intent
IntentNames == {Registrations[i].func : i \in 1..Len(Registrations)} \cup {"play_music"}
TextArgs == {"open chrome", "bye"}
ArgLists == SeqsUpTo(TextArgs, MaxArgs)

----------------------------------------------------------------------------
(* The command line interface                                              *)

\* The output objects a CLI can hold: the two of the class attribute
\* output_map, and the CommandLineOutput that create_outputs and
\* create_header_outputs make when the configuration enables none.
OutputObjects == {"text", "speech", "fallback", "header fallback"}

\* type(o)
Class(o) == IF o = "speech" THEN "SpeechOutput" ELSE "CommandLineOutput"

\* the prefix each object is constructed with (None for SpeechOutput)
ConstructedPrefix == [o \in OutputObjects |-> IF o = "speech" THEN "None" ELSE "ACE:"]

\* outputs.py:90-100  CommandLineOutput._prefix_empty
_prefix_empty(p) == p \in {"None", "", " "}

\* outputs.py:72-88 and 134-160  o.broadcast(message) while o.prefix is p:
\* what reaches the user, the prefix shown before the message included
broadcast(o, p, message) ==
    [output |-> o,
     prefix |-> IF Class(o) = "CommandLineOutput" /\ ~_prefix_empty(p) THEN p ELSE "",
     message |-> message]

\* interfaces.py:346-373  create_outputs for a configuration that enables
\* the output types in on (the config lists text before speech)
create_outputs(on) ==
    LET made == (IF "text" \in on THEN <<"text">> ELSE <<>>)
                    \o (IF "speech" \in on THEN <<"speech">> ELSE <<>>)
    IN IF made = <<>> THEN <<"fallback">> ELSE made

\* interfaces.py:375-402  create_header_outputs
create_header_outputs(on) ==
    LET made == (IF "text" \in on THEN <<"text">> ELSE <<>>)
                    \o (IF "speech" \in on THEN <<"speech">> ELSE <<>>)
    IN IF made = <<>> THEN <<"header fallback">> ELSE made

\* interfaces.py:436-442  the loop of display_header over the outputs outs,
\* from the prefixes pf and the log so far: the prefixes and the log after
RECURSIVE HeaderLoopNoRestore(_, _, _, _)
HeaderLoopNoRestore(outs, pf, log, message) ==
    IF outs = <<>> THEN [prefix |-> pf, log |-> log]
    ELSE LET output == Head(outs)
             cleared == [pf EXCEPT ![output] = ""]
         IN HeaderLoopNoRestore(Tail(outs), cleared,
                                Append(log, broadcast(output, cleared[output], message)),
                                message)
RECURSIVE HeaderLoop(_, _, _, _)
HeaderLoop(outs, pf, log, message) ==
    IF outs = <<>> THEN [prefix |-> pf, log |-> log]
    ELSE LET output == Head(outs)
             _prefix == pf[output]
             cleared == [pf EXCEPT ![output] = ""]
             restored == [cleared EXCEPT ![output] = _prefix]
         IN HeaderLoop(Tail(outs), restored,
                       Append(log, broadcast(output, cleared[output], message)),
                       message)

\* CLI.display_header(): one call, the first statement of CLI.run
display_header ==
    /\ cli_pc = "start"
    /\ LET after == IF show_header
                    THEN HeaderLoop(header_outputs, prefix, broadcasts, header)
                    ELSE [prefix |-> prefix, log |-> broadcasts]
       IN /\ prefix' = after.prefix
          /\ broadcasts' = after.log
    /\ cli_pc' = "read"
    /\ UNCHANGED <<show_header, header, outputs, header_outputs, pending, turns, cli_result>>
    /\ UNCHANGED notCliVars

NoInput == [intent |-> "", text |-> ""]
NoResult == [kind |-> "none", response |-> "", should_exit |-> FALSE, calls |-> <<>>]

\* what the user types and what the classifier makes of it
CliTexts == {"hello", "bye"}
CliIntents == {"unknown", "greeting", "goodbye", "show_todo_list", "current_weather"}

\* interfaces.py:445-466  CLI.get_intent(): blocks until the user has
\* entered a line, classifies it and returns (intent, text)
get_intent ==
    /\ cli_pc = "read"
    /\ turns < MaxTurns
    /\ \E t \in CliTexts, intent \in CliIntents :
           pending' = [intent |-> intent, text |-> t]
    /\ turns' = turns + 1
    /\ cli_pc' = "dispatch"
    /\ UNCHANGED <<show_header, header, outputs, header_outputs, prefix, broadcasts, cli_result>>
    /\ UNCHANGED notCliVars

\* interfaces.py:418-420  the outputs the loop broadcasts to: those whose
\* type is exactly the abstract base class Output
BroadcastTargets(outs) == SelectSeq(outs, LAMBDA o : Class(o) = "Output")

RECURSIVE BroadcastAll(_, _, _, _)
BroadcastAll(outs, pf, log, message) ==
    IF outs = <<>> THEN log
    ELSE BroadcastAll(Tail(outs), pf, Append(log, broadcast(Head(outs), pf[Head(outs)], message)),
                      message)

\* interfaces.py:415-423  where the loop goes after run_intent: out by the
\* exception, out by break, or round again
NextPcOnAnyReturn(result) ==
    IF result.kind = "raise" THEN "raised" ELSE "done"
NextPc(result) ==
    IF result.kind = "raise" THEN "raised"
    ELSE IF result.should_exit THEN "done"
    ELSE "read"

\* interfaces.py:415-423  the rest of one iteration of CLI.run: run_intent
\* on what get_intent returned, the broadcast loop, the test for break
cli_iteration ==
    /\ cli_pc = "dispatch"
    /\ \E w \in RunWorlds(pending.intent, <<pending.text>>) :
          LET result == RunResult(pending.intent, <<pending.text>>, w)
          IN /\ cli_result' = result
             /\ broadcasts' = IF result.kind = "raise" THEN broadcasts
                              ELSE BroadcastAll(BroadcastTargets(outputs), prefix,
                                                broadcasts, result.response)
             /\ cli_pc' = NextPc(result)
    /\ UNCHANGED <<show_header, header, outputs, header_outputs, prefix, pending, turns>>
    /\ UNCHANGED notCliVars

\* Inputs of the CLI
Headers == {"", "ACE v1"}
OutputConfigs == SUBSET {"text", "speech"}

CliIdle ==
    /\ cli_pc = "start"
    /\ show_header = FALSE
    /\ header = ""
    /\ outputs = <<>>
    /\ header_outputs = <<>>
    /\ prefix = <<>>
    /\ broadcasts = <<>>
    /\ pending = NoInput
    /\ turns = 0
    /\ cli_result = NoResult

----------------------------------------------------------------------------
(* The graphical interface: sending a message and responding to it         *)

\* The chat box holds lines that each end with a blank line ("\n\n").  A
\* piece is one such line: who is the label the line starts with ("You: ",
\* "ACE: ", or "" for the header), lead is text that was in the box before
\* the line without a blank line after it.
Piece(lead, who, t) == [lead |-> lead, who |-> who, text |-> t]

\* chat_box.insert(tk.END, f"{who}{t}\n\n")
InsertLine(box, tail, who, t) == Append(box, Piece(tail, who, t))

\* interfaces.py:842-846  messages = chatbox_text.split("\n\n");
\* messages[-2].replace("You: ", ""): the last line of the box that ends
\* with a blank line, without the label "You: "
LastMessage(box) ==
    LET line == box[Len(box)]
    IN [lead |-> line.lead,
        mark |-> IF line.who = "You: " THEN "" ELSE line.who,
        text |-> line.text]

GuiTexts == {"hello", "bye"}
GuiIntents == {"unknown", "greeting", "goodbye"}
GuiHeader == "ACE v1"

\* GUI._send_message(event): the user presses Return or the send button
\* with the text m in the entry
_send_message(m) ==
    /\ gui_state # "destroyed"
    /\ Len(sent) < MaxMessages
    /\ chat_box' = InsertLine(chat_box, chat_tail, "You: ", m)
    /\ chat_tail' = ""
    /\ timers' = Append(timers, "_respond")
    /\ sent' = Append(sent, m)
    /\ UNCHANGED <<gui_state, gui_header, classified>>
    /\ UNCHANGED notGuiVars

\* GUI.display_header(), due 500 ms after _setup
gui_display_header ==
    /\ gui_state # "destroyed"
    /\ timers # <<>> /\ Head(timers) = "display_header"
    /\ timers' = Tail(timers)
    /\ IF gui_header
       THEN /\ chat_box' = InsertLine(chat_box, chat_tail, "", GuiHeader)
            /\ chat_tail' = ""
       ELSE UNCHANGED <<chat_box, chat_tail>>
    /\ UNCHANGED <<gui_state, gui_header, sent, classified>>
    /\ UNCHANGED notGuiVars

\* GUI._respond(event), due 500 ms after the _send_message that scheduled
\* it: classifies the last line of the chat box, runs the intent, writes
\* ACE's line and closes when the intent says so
_respond ==
    /\ gui_state # "destroyed"
    /\ timers # <<>> /\ Head(timers) = "_respond"
    /\ timers' = Tail(timers)
    /\ LET message == LastMessage(chat_box)
       IN /\ classified' = Append(classified, message)
          /\ \E intent \in GuiIntents :
                LET response == RunResult(intent, <<message.text>>, NoWorld)
                IN /\ chat_box' = InsertLine(chat_box, chat_tail, "ACE: ", response.response)
                   /\ chat_tail' = IF response.should_exit THEN "Exiting..." ELSE ""
                   /\ gui_state' = IF response.should_exit THEN "closing" ELSE gui_state
    /\ UNCHANGED <<gui_header, sent>>
    /\ UNCHANGED notGuiVars

\* root.destroy, due 1000 ms after _close
destroy ==
    /\ gui_state = "closing"
    /\ gui_state' = "destroyed"
    /\ timers' = <<>>
    /\ UNCHANGED <<gui_header, chat_box, chat_tail, sent, classified>>
    /\ UNCHANGED notGuiVars

GuiIdle ==
    /\ gui_state = "destroyed"
    /\ gui_header = FALSE
    /\ chat_box = <<>>
    /\ chat_tail = ""
    /\ timers = <<>>
    /\ sent = <<>>
    /\ classified = <<>>

----------------------------------------------------------------------------
(* The cache of WeatherAPI._get_response                                   *)

\* apis.py:204  ttl=60 * 60 * 3 seconds, in hours
ttl == 3

\* the arguments (location, units, tag) of the calls; self is the same key
\* part for every WeatherAPI (apis.py:58-59)
CacheKeys ==
    {<<"London", "metric", "current">>, <<"London", "metric", "tomorrow">>,
     <<"Paris", "metric", "current">>}

\* what a request can meet: a connection error, a body, a reply that is
\* not JSON
CacheWorlds(tag) ==
    {[of |-> "weather", env |-> "ok", http |-> h,
      cod |-> IF h = "body" THEN SuccessCod(tag) ELSE Cod(TRUE, "0")] :
        h \in {"ConnectionError", "body", "JSONDecodeError"}}

\* TTLCache: an item has expired when not (timer() < link.expires)
ExpiredLate(entry, t) == t > entry.expires
Expired(entry, t) == ~(t < entry.expires)

\* TTLCache.expire(time): the items that are left
expire(c, t) == [k \in {q \in DOMAIN c : ~Expired(c[q], t)} |-> c[k]]

\* the order of use restricted to the keys kept
Keep(order, keys) == SelectSeq(order, LAMBDA k : k \in keys)

\* Cache.__setitem__ after expire: popitem() drops the least recently used
\* key while the cache is full
RECURSIVE MakeRoom(_)
MakeRoom(order) == IF Len(order) >= maxsize /\ order # <<>> THEN MakeRoom(Tail(order)) ELSE order

\* cachetools.cached around _get_response(location, units, tag): one call.
\* A hit returns the stored value and makes the key the most recently used;
\* a miss calls the function, which makes the HTTP request, and stores what
\* it returns (None included); an exception is not stored.
cached_get_response(key) ==
    /\ Len(history) < MaxCalls
    /\ IF key \in DOMAIN cache /\ ~Expired(cache[key], now)
       THEN /\ history' = Append(history, [key |-> key, time |-> now, requested |-> FALSE,
                                           result |-> Returns(cache[key].value)])
            /\ lru' = Append(Keep(lru, DOMAIN cache \ {key}), key)
            /\ cache' = cache
       ELSE \E w \in CacheWorlds(key[3]) :
              LET v == _get_response(w)
                  live == expire(cache, now)
                  order == MakeRoom(Keep(lru, DOMAIN live))
              IN /\ history' = Append(history, [key |-> key, time |-> now, requested |-> TRUE,
                                                result |-> v])
                 /\ IF v.kind = "raise"
                    THEN UNCHANGED <<cache, lru>>
                    ELSE /\ lru' = Append(order, key)
                         /\ cache' = [k \in Range(order) \cup {key} |->
                                         IF k = key THEN [value |-> v.value, expires |-> now + ttl]
                                         ELSE live[k]]
    /\ UNCHANGED now
    /\ UNCHANGED notCacheVars

\* an hour passes
Tick ==
    /\ now < MaxTime
    /\ now' = now + 1
    /\ UNCHANGED <<cache, lru, history>>
    /\ UNCHANGED notCacheVars

CacheIdle ==
    /\ now = 0
    /\ cache = <<>>
    /\ lru = <<>>
    /\ history = <<>>

----------------------------------------------------------------------------
(* Specification of the decision engine                                    *)

Init ==
    /\ threshold \in Thresholds
    /\ labels \in {SubSeq(LabelOrder, 1, n) : n \in 0..MaxLabels}
    /\ text = None
    /\ cats = NoCats
    /\ nlp_calls = <<>>
    /\ confidence = NotCalled
    /\ outcome = NoOutcome
    /\ GenIdle
    /\ LoadIdle
    /\ SaveIdle
    /\ DispatchIdle
    /\ CliIdle
    /\ GuiIdle
    /\ CacheIdle

Next == \E t \in Texts : predict(t)

Spec == Init /\ [][Next]_vars

----------------------------------------------------------------------------
(* Specification of the dataset generation                                 *)

InitGen ==
    /\ raw_intents \in IntentSets
    /\ raw_entities \in Gazetteers
    /\ num_examples \in (-1)..MaxNumExamples
    /\ dataset = NoOutcome
    /\ PredictIdle
    /\ LoadIdle
    /\ SaveIdle
    /\ DispatchIdle
    /\ CliIdle
    /\ GuiIdle
    /\ CacheIdle

NextGen == generate_intent_dataset

SpecGen == InitGen /\ [][NextGen]_vars

----------------------------------------------------------------------------
(* Specification of the loaders                                            *)

InitLoad ==
    /\ directory \in Directories
    /\ loaded = NotLoaded
    /\ PredictIdle
    /\ GenIdle
    /\ SaveIdle
    /\ DispatchIdle
    /\ CliIdle
    /\ GuiIdle
    /\ CacheIdle

NextLoad == load_entities \/ load_intents

SpecLoad == InitLoad /\ [][NextLoad]_vars

----------------------------------------------------------------------------
(* Specification of save_dataset                                           *)

InitSave ==
    /\ save_args \in [dataset : Datasets, directory : {TargetDir}, filename : Filenames]
    /\ \E fs \in FileSystems(save_args.filename) :
           /\ fs_dirs = fs.dirs
           /\ fs_files = fs.files
    /\ saved = NotSaved
    /\ PredictIdle
    /\ GenIdle
    /\ LoadIdle
    /\ DispatchIdle
    /\ CliIdle
    /\ GuiIdle
    /\ CacheIdle

NextSave == save_dataset

SpecSave == InitSave /\ [][NextSave]_vars

----------------------------------------------------------------------------
(* Specification of the dispatch                                           *)

InitDispatch ==
    /\ intent_funcs = ModuleLoad
    /\ handler_calls = <<>>
    /\ ran = NotRun
    /\ world = NoWorld
    /\ PredictIdle
    /\ GenIdle
    /\ LoadIdle
    /\ SaveIdle
    /\ CliIdle
    /\ GuiIdle
    /\ CacheIdle

NextDispatch == \E name \in IntentNames, args \in ArgLists : run_intent(name, args)

SpecDispatch == InitDispatch /\ [][NextDispatch]_vars

----------------------------------------------------------------------------
(* Specification of the command line interface                             *)

\* a CLI after __init__, with the dispatch table of the loaded module
InitCLI ==
    /\ cli_pc = "start"
    /\ show_header \in BOOLEAN
    /\ header \in Headers
    /\ \E on \in OutputConfigs : outputs = create_outputs(on)
    /\ \E on \in OutputConfigs : header_outputs = create_header_outputs(on)
    /\ prefix = ConstructedPrefix
    /\ broadcasts = <<>>
    /\ pending = NoInput
    /\ turns = 0
    /\ cli_result = NoResult
    /\ intent_funcs = ModuleLoad
    /\ handler_calls = <<>>
    /\ ran = NotRun
    /\ world = NoWorld
    /\ PredictIdle
    /\ GenIdle
    /\ LoadIdle
    /\ SaveIdle
    /\ GuiIdle
    /\ CacheIdle

NextCLI == display_header \/ get_intent \/ cli_iteration

SpecCLI == InitCLI /\ [][NextCLI]_vars

\* CLI.run is one thread: once started it displays the header, and once a
\* line has been read it finishes the iteration; reading waits for the user
SpecCLILive ==
    InitCLI /\ [][NextCLI]_vars /\ WF_vars(display_header) /\ WF_vars(cli_iteration)

----------------------------------------------------------------------------
(* Specification of the graphical interface                                *)

\* a GUI after _setup with a chat box: the header is due, nothing was sent
InitGUI ==
    /\ gui_state = "open"
    /\ gui_header \in BOOLEAN
    /\ chat_box = <<>>
    /\ chat_tail = ""
    /\ timers = <<"display_header">>
    /\ sent = <<>>
    /\ classified = <<>>
    /\ intent_funcs = ModuleLoad
    /\ handler_calls = <<>>
    /\ ran = NotRun
    /\ world = NoWorld
    /\ PredictIdle
    /\ GenIdle
    /\ LoadIdle
    /\ SaveIdle
    /\ CliIdle
    /\ CacheIdle

NextGUI ==
    \/ \E m \in GuiTexts : _send_message(m)
    \/ gui_display_header
    \/ _respond
    \/ destroy

SpecGUI == InitGUI /\ [][NextGUI]_vars

----------------------------------------------------------------------------
(* Specification of the weather cache                                      *)

\* the module is loaded: the cache is empty
InitCache ==
    /\ now = 0
    /\ cache = <<>>
    /\ lru = <<>>
    /\ history = <<>>
    /\ PredictIdle
    /\ GenIdle
    /\ LoadIdle
    /\ SaveIdle
    /\ DispatchIdle
    /\ CliIdle
    /\ GuiIdle

NextCache ==
    \/ \E key \in CacheKeys : cached_get_response(key)
    \/ Tick

SpecCache == InitCache /\ [][NextCache]_vars

----------------------------------------------------------------------------
(* Properties of the decision engine                                       *)

Called == outcome.kind # "none"

\* the utterance is None, empty or whitespace-only
IsBlank(t) == t = None \/ \A i \in 1..Len(t) : t[i] = " "

CatLabels(c) == {c[i].label : i \in 1..Len(c)}
TopLabels(c) ==
    {c[i].label : i \in {j \in 1..Len(c) : \A k \in 1..Len(c) : c[k].score <= c[j].score}}
AllZero(c) == \A i \in 1..Len(c) : c[i].score = 0

\* Sum of the scores and of their squares.  n*Q - S*S is n^2 times the
\* population variance, and the mean is S/n.
SumScores(c) == SumSeq([i \in 1..Len(c) |-> c[i].score])
SumSquares(c) == SumSeq([i \in 1..Len(c) |-> c[i].score * c[i].score])

\* (population standard deviation / mean)^2 = (n*Q - S^2) / S^2
PopulationCVSq(c) ==
    <<Len(c) * SumSquares(c) - SumScores(c) * SumScores(c),
      SumScores(c) * SumScores(c)>>

\* (sample standard deviation / mean)^2 = n*(n*Q - S^2) / ((n - 1)*S^2)
SampleCVSq(c) ==
    <<Len(c) * (Len(c) * SumSquares(c) - SumScores(c) * SumScores(c)),
      (Len(c) - 1) * SumScores(c) * SumScores(c)>>

\* the confidence the code computes for a map of two or more labels
CVSq(c) == IF AllZero(c) THEN <<0, 1>> ELSE SampleCVSq(c)

\* confidence < threshold, confidence = threshold (both are non-negative)
ConfBelowThreshold ==
    CVSq(cats)[1] * threshold[2] * threshold[2]
        < threshold[1] * threshold[1] * CVSq(cats)[2]
ConfAtThreshold ==
    CVSq(cats)[1] * threshold[2] * threshold[2]
        = threshold[1] * threshold[1] * CVSq(cats)[2]

\* C1: predict returns "unknown" whenever the utterance is None, empty or
\* whitespace-only, whatever the scorer gives for the empty string and
\* whatever the threshold is.
\* Stated for score maps of two or more labels, where predict returns.
C1_BlankIsUnknown ==
    (Called /\ IsBlank(text) /\ Len(cats) >= 2) =>
        outcome = [kind |-> "return", value |-> "unknown"]

\* C2: a predict call whose utterance is empty or None never invokes the
\* scorer: the list of scorer calls is unchanged by the call.
C2_NoScorerCallOnEmpty ==
    [][(text' = None \/ text' = <<>>) => nlp_calls' = nlp_calls]_vars

\* C3: for a non-empty utterance and a score map of two or more labels,
\* predict returns "unknown" iff confidence < threshold and a top-scoring
\* label iff confidence >= threshold (equality is accepted).
C3_ThresholdRule ==
    (Called /\ text # None /\ text # <<>> /\ Len(cats) >= 2) =>
        /\ outcome.kind = "return"
        /\ (outcome.value = "unknown") <=> ConfBelowThreshold
        /\ (outcome.value \in TopLabels(cats)) <=> ~ConfBelowThreshold

C3_Witness ==
    /\ Called /\ text # None /\ text # <<>> /\ Len(cats) >= 2
    /\ ~AllZero(cats)
    /\ ConfAtThreshold
    /\ outcome.kind = "return"
    /\ outcome.value \in TopLabels(cats)

\* C4 as stated: the confidence is 0 when all scores are zero and otherwise
\* the population standard deviation (divisor N) over the mean.  Stated for
\* two or more scores, where the standard deviation the code calls is
\* defined.
C4_PopulationCV ==
    (Called /\ Len(cats) >= 2) =>
        /\ confidence.raises = ""
        /\ AllZero(cats) => confidence.sq[1] = 0
        /\ ~AllZero(cats) => RatEq(confidence.sq, PopulationCVSq(cats))

\* C4 amended: the confidence is 0 when all scores are zero; otherwise, for
\* two or more scores, it is the sample standard deviation (divisor N-1)
\* over the mean, and for a single non-zero score the call raises
\* StatisticsError.
C4_SampleCV ==
    (Called /\ Len(cats) >= 1) =>
        /\ AllZero(cats) => (confidence.raises = "" /\ confidence.sq[1] = 0)
        /\ (~AllZero(cats) /\ Len(cats) >= 2) =>
               (confidence.raises = "" /\ RatEq(confidence.sq, SampleCVSq(cats)))
        /\ (~AllZero(cats) /\ Len(cats) = 1) =>
               confidence.raises = "StatisticsError"

C4_Witness ==
    /\ Called /\ Len(cats) >= 3 /\ ~AllZero(cats)
    /\ confidence.raises = ""
    /\ confidence.sq[1] > 0
    /\ RatEq(confidence.sq, SampleCVSq(cats))
    /\ ~RatEq(confidence.sq, PopulationCVSq(cats))

\* C5: predict never raises: for every utterance and every score map,
\* including a single-label and an empty one, it returns a label of the map
\* or "unknown".
C5_NeverRaises ==
    Called =>
        /\ outcome.kind = "return"
        /\ outcome.value \in CatLabels(cats) \cup {"unknown"}

EqualScores(c) == \A i, j \in 1..Len(c) : c[i].score = c[j].score

\* C23: when all labels of a score map of two or more labels have the same
\* non-zero score, the confidence is 0 and predict returns "unknown" for
\* every positive threshold.
C23_EqualScoresUnknown ==
    (Called /\ Len(cats) >= 2 /\ EqualScores(cats) /\ ~AllZero(cats)
        /\ threshold[1] > 0) =>
        /\ confidence.raises = ""
        /\ confidence.sq[1] = 0
        /\ outcome = [kind |-> "return", value |-> "unknown"]

C23_Witness ==
    /\ Called /\ Len(cats) = 2
    /\ cats[1].score = MaxScore /\ cats[2].score = MaxScore
    /\ threshold = <<1, 2>>
    /\ confidence.sq[1] = 0
    /\ outcome = [kind |-> "return", value |-> "unknown"]

\* An utterance trimmed of its surrounding spaces and lower-cased, by the
\* positions of its first and last character that is not a space.
NonSpace(t) == {i \in 1..Len(t) : t[i] # " "}
Trimmed(t) ==
    IF NonSpace(t) = {} THEN <<>>
    ELSE LET a == CHOOSE i \in NonSpace(t) : \A j \in NonSpace(t) : i <= j
             b == CHOOSE i \in NonSpace(t) : \A j \in NonSpace(t) : j <= i
         IN SubSeq(t, a, b)
Canon(t) == [i \in 1..Len(Trimmed(t)) |-> IF Trimmed(t)[i] = "A" THEN "a" ELSE Trimmed(t)[i]]

\* C24: predict is invariant under case and surrounding whitespace: the
\* scorer receives the trimmed, lower-cased utterance, and every utterance
\* that is equal to this one after trimming and lower-casing hands the
\* scorer that same text, so a deterministic scorer gives both the same
\* score map and predict the same result.
C24_CaseWhitespaceInvariant ==
    (Called /\ text # None) =>
        /\ nlp_calls = <<Canon(text)>>
        /\ \A u \in Texts \ {None} :
               Canon(u) = Canon(text) => Normalize(u) = nlp_calls[1]

C24_Witness ==
    /\ Called
    /\ text = <<" ", "A">>
    /\ nlp_calls = << <<"a">> >>
    /\ Len(cats) >= 2
    /\ outcome.kind = "return"

----------------------------------------------------------------------------
(* Properties of the dataset generation                                    *)

Generated == dataset.kind = "return"

Placeholders(template) == {template[i].v : i \in {j \in 1..Len(template) : template[j].k = "ph"}}

\* the template with every placeholder replaced by the value f gives it
Subst(template, f) ==
    Concat([i \in 1..Len(template) |->
              IF template[i].k = "ph" THEN f[template[i].v] ELSE <<template[i].v>>])

\* what one template is to contribute: itself when it has no placeholder,
\* else one string per choice of a gazetteer value for each placeholder
\* (none when a placeholder is absent from the gazetteer)
Instantiations(template) ==
    IF Placeholders(template) = {} THEN {TemplateText(template)}
    ELSE IF ~(Placeholders(template) \subseteq DOMAIN raw_entities) THEN {}
    ELSE {Subst(template, f) :
            f \in {g \in [Placeholders(template) ->
                            UNION {Range(raw_entities[e]) : e \in Placeholders(template)}] :
                      \A e \in Placeholders(template) : g[e] \in Range(raw_entities[e])}}

\* the number of candidates of a template, repetitions counted
RECURSIVE ProdLen(_)
ProdLen(names) ==
    IF names = <<>> THEN 1 ELSE Len(raw_entities[Head(names)]) * ProdLen(Tail(names))

NumCandidates(template) ==
    IF Placeholders(template) = {} THEN 1
    ELSE IF ~(Placeholders(template) \subseteq DOMAIN raw_entities) THEN 0
    ELSE ProdLen(findall(template))

TotalCandidates(templates) ==
    SumSeq([i \in 1..Len(templates) |-> NumCandidates(templates[i])])

AllInstantiations(templates) ==
    UNION {Instantiations(templates[i]) : i \in 1..Len(templates)}

\* C6: every template of an intent contributes: when num_examples is at
\* least the number of candidates, the intent's result is the union of the
\* contributions of all its templates.
C6_EveryTemplateContributes ==
    Generated =>
        \A i \in 1..Len(raw_intents) :
            num_examples >= TotalCandidates(raw_intents[i].templates) =>
                dataset.value[i].examples = AllInstantiations(raw_intents[i].templates)

\* C7: candidates are deduplicated before truncation: the size of an
\* intent's result is min(num_examples, number of distinct candidates).
\* Stated for the intents of a single template, where the candidates are
\* the instantiations of that template alone.
C7_DedupBeforeTruncate ==
    (Generated /\ num_examples >= 0) =>
        \A i \in 1..Len(raw_intents) :
            Len(raw_intents[i].templates) = 1 =>
                Cardinality(dataset.value[i].examples)
                    = Min(num_examples,
                          Cardinality(AllInstantiations(raw_intents[i].templates)))

\* C8: for a non-negative num_examples no intent of the result has more
\* than num_examples examples.
C8_QuotaRespected ==
    (Generated /\ num_examples >= 0) =>
        \A i \in 1..Len(dataset.value) :
            Cardinality(dataset.value[i].examples) <= num_examples

C8_Witness ==
    /\ Generated
    /\ num_examples > 0
    /\ \E i \in 1..Len(raw_intents) :
           /\ Cardinality(AllInstantiations(raw_intents[i].templates)) > num_examples
           /\ Cardinality(dataset.value[i].examples) = num_examples

\* The k-th tuple (k >= 1) of the Cartesian product of the value lists of
\* names, the first name varying slowest: position j holds the value of
\* index ((k - 1) div (product of the later lengths)) mod (own length).
TupleAt(names, k) ==
    [e \in Range(names) |->
        LET j == CHOOSE p \in 1..Len(names) : names[p] = e
            later == ProdLen(SubSeq(names, j + 1, Len(names)))
        IN raw_entities[e][(((k - 1) \div later) % Len(raw_entities[e])) + 1]]

DistinctNames(names) == \A p, q \in 1..Len(names) : names[p] = names[q] => p = q

\* C9: an intent with one template, whose placeholders are distinct and all
\* in the gazetteer, gets the first num_examples tuples of the Cartesian
\* product in first-occurrence order, first placeholder slowest.
C9_ProductOrder ==
    (Generated /\ num_examples >= 0) =>
        \A i \in 1..Len(raw_intents) :
            LET ts == raw_intents[i].templates
                names == findall(ts[1])
            IN (/\ Len(ts) = 1
                /\ names # <<>>
                /\ DistinctNames(names)
                /\ Range(names) \subseteq DOMAIN raw_entities) =>
                   dataset.value[i].examples =
                       {Subst(ts[1], TupleAt(names, k)) :
                           k \in 1..Min(num_examples, ProdLen(names))}

\* 'hello {name} {age}' with two names, two ages and num_examples = 2 keeps
\* the two ages of the first name
C9_Witness ==
    /\ Generated
    /\ num_examples = 2
    /\ \E i \in 1..Len(raw_intents) :
           /\ raw_intents[i].templates = <<NameAge>>
           /\ DOMAIN raw_entities = {"name", "age"}
           /\ raw_entities["name"] = << <<"x">>, <<"x", "y">> >>
           /\ raw_entities["age"] = << <<"y">>, <<"y", "y">> >>
           /\ dataset.value[i].examples = {<<"x", "y">>, <<"x", "y", "y">>}

RemoveAt(s, p) == SubSeq(s, 1, p - 1) \o SubSeq(s, p + 1, Len(s))

MissingEntity(template) == ~(Placeholders(template) \subseteq DOMAIN raw_entities)

\* C10: a template that references an entity absent from the gazetteer
\* does not make the call raise and contributes nothing: every intent is in
\* the result, and the result of the template's intent is what it is
\* without that template.
C10_MissingEntitySafe ==
    (dataset.kind # "none"
        /\ \E i \in 1..Len(raw_intents) :
               \E p \in 1..Len(raw_intents[i].templates) :
                   MissingEntity(raw_intents[i].templates[p])) =>
        /\ Generated
        /\ Len(dataset.value) = Len(raw_intents)
        /\ \A i \in 1..Len(raw_intents) :
               /\ dataset.value[i].intent = raw_intents[i].intent
               /\ \A p \in 1..Len(raw_intents[i].templates) :
                      MissingEntity(raw_intents[i].templates[p]) =>
                          dataset.value[i].examples =
                              IntentExamples(RemoveAt(raw_intents[i].templates, p),
                                             raw_entities, num_examples)

C10_Witness ==
    /\ Generated
    /\ Len(raw_intents) = 2
    /\ Len(raw_intents[1].templates) = 2
    /\ ~MissingEntity(raw_intents[1].templates[1])
    /\ MissingEntity(raw_intents[1].templates[2])
    /\ dataset.value[1].examples # {}
    /\ dataset.value[2].examples # {}

\* C11: the call fails with ValueError exactly when no example at all was
\* generated, also when raw_intents is not empty; otherwise it returns every
\* input intent as a key, so a returned dataset has at least one example.
C11_NoExamplesIsFatal ==
    /\ Generated =>
           /\ Len(dataset.value) = Len(raw_intents)
           /\ \E i \in 1..Len(dataset.value) : dataset.value[i].examples # {}
    /\ dataset.kind = "raise" =>
           \A i \in 1..Len(raw_intents) :
               AllInstantiations(raw_intents[i].templates) = {}

----------------------------------------------------------------------------
(* Properties of the loaders                                               *)

Loaded == loaded.kind # "none"

SuffixOf(fn) == IF fn = "load_entities" THEN ".entity" ELSE ".intent"

\* the files the map is built from: every .intent file, and every .entity
\* file that is not skipped as empty
UsableFiles ==
    {f \in DOMAIN directory :
        /\ f.suffix = SuffixOf(loaded.fn)
        /\ (loaded.fn = "load_entities" => directory[f] # <<>>)}

\* C13: load_entities and load_intents fail with FileNotFoundError exactly
\* when the map built from the directory is empty, and return the non-empty
\* map, keyed by the stems of its files, otherwise.
C13_NotFoundIffEmpty ==
    Loaded =>
        /\ (loaded.kind = "raise") <=> (UsableFiles = {})
        /\ loaded.kind = "raise" => loaded.value = "FileNotFoundError"
        /\ loaded.kind = "return" =>
               /\ DOMAIN loaded.value # {}
               /\ DOMAIN loaded.value = {f.stem : f \in UsableFiles}

\* a directory that holds files, among them an empty entity file, and no
\* usable one
C13_Witness ==
    /\ loaded.fn = "load_entities"
    /\ loaded.kind = "raise"
    /\ \E f \in DOMAIN directory : f.suffix = ".entity" /\ directory[f] = <<>>
    /\ \E f \in DOMAIN directory : f.suffix # ".entity"

\* the file has no non-empty line: it is empty or all its lines are blank
OnlyBlankLines(content) == \A i \in 1..Len(content) : content[i] = "\n"

\* C14: load_entities skips every entity file that has no non-empty line,
\* an empty file and also a file of blank lines only: no such file's name
\* is a key of the result.
C14_BlankEntityFilesSkipped ==
    (loaded.fn = "load_entities" /\ loaded.kind = "return") =>
        \A f \in DOMAIN directory :
            (f.suffix = ".entity" /\ OnlyBlankLines(directory[f])) =>
                f.stem \notin DOMAIN loaded.value

\* the non-empty lines of a file, in order
RECURSIVE ScanLines(_, _)
ScanLines(s, cur) ==
    IF s = <<>> THEN (IF cur = <<>> THEN <<>> ELSE <<cur>>)
    ELSE IF Head(s) = "\n"
    THEN (IF cur = <<>> THEN <<>> ELSE <<cur>>) \o ScanLines(Tail(s), <<>>)
    ELSE ScanLines(Tail(s), Append(cur, Head(s)))

NonEmptyLines(content) == ScanLines(content, <<>>)

\* C15: every list returned by a loader holds exactly the non-empty lines
\* of its file, so never the empty string, and its key is the file's base
\* name without extension.
C15_OnlyNonEmptyLines ==
    (Loaded /\ loaded.kind = "return") =>
        \A k \in DOMAIN loaded.value :
            /\ \E f \in DOMAIN directory :
                   /\ f.stem = k
                   /\ f.suffix = SuffixOf(loaded.fn)
                   /\ loaded.value[k] = NonEmptyLines(directory[f])
            /\ \A i \in 1..Len(loaded.value[k]) : loaded.value[k][i] # <<>>

----------------------------------------------------------------------------
(* Properties of save_dataset                                              *)

SavePath == Append(save_args.directory, save_args.filename)

\* the extension of a file name, read from the right: the characters after
\* the last dot with that dot, when the dot is inside the name
RECURSIVE ExtensionFrom(_, _)
ExtensionFrom(name, i) ==
    IF i <= 1 THEN <<>>
    ELSE IF name[i] = "." THEN (IF i = Len(name) THEN <<>> ELSE SubSeq(name, i, Len(name)))
    ELSE ExtensionFrom(name, i - 1)

Extension(name) == ExtensionFrom(name, Len(name))

RECURSIVE ParseFrom(_, _, _, _, _)
ParseFrom(s, inq, field, row, rows) ==
    IF s = <<>>
    THEN (IF field = <<>> /\ row = <<>> THEN rows ELSE Append(rows, Append(row, field)))
    ELSE IF inq
    THEN IF Head(s) = "\""
         THEN IF Len(s) >= 2 /\ s[2] = "\""
              THEN ParseFrom(Tail(Tail(s)), TRUE, Append(field, "\""), row, rows)
              ELSE ParseFrom(Tail(s), FALSE, field, row, rows)
         ELSE ParseFrom(Tail(s), TRUE, Append(field, Head(s)), row, rows)
    ELSE IF Head(s) = "\"" /\ field = <<>>
    THEN ParseFrom(Tail(s), TRUE, field, row, rows)
    ELSE IF Head(s) = ","
    THEN ParseFrom(Tail(s), FALSE, <<>>, Append(row, field), rows)
    ELSE IF Head(s) = "\r" /\ Len(s) >= 2 /\ s[2] = "\n"
    THEN ParseFrom(Tail(Tail(s)), FALSE, <<>>, <<>>, Append(rows, Append(row, field)))
    ELSE ParseFrom(Tail(s), FALSE, Append(field, Head(s)), row, rows)

ParseCsv(content) == ParseFrom(content, FALSE, <<>>, <<>>, <<>>)

\* the (utterance, intent) pairs of a dataset, intents in key order
Pairs(ds) ==
    Concat([i \in 1..Len(ds) |->
              [j \in 1..Len(ds[i].examples) |-> <<ds[i].examples[j], ds[i].intent>>]])

\* C17: the written file is the header row phrase,intent and then one row
\* per (utterance, intent) pair, intents in key order; read back, the rows
\* are the pairs of the dataset, also for utterances with a comma or a
\* double quote.
C17_RoundTrip ==
    saved.kind = "return" =>
        /\ SavePath \in DOMAIN fs_files
        /\ ParseCsv(fs_files[SavePath])
               = << <<<<"phrase">>, <<"intent">>>> >> \o Pairs(save_args.dataset)

C17_Witness ==
    /\ saved.kind = "return"
    /\ Len(save_args.dataset) = 2
    /\ \E j \in 1..Len(save_args.dataset[1].examples) :
           save_args.dataset[1].examples[j] = <<"\"">>
    /\ \E j \in 1..Len(save_args.dataset[2].examples) :
           save_args.dataset[2].examples[j] = <<",">>
    /\ Len(ParseCsv(fs_files[SavePath])) = 3

Failing == saved'.kind = "raise"

\* C30 as stated: when save_dataset fails because of an unsupported
\* extension the filesystem is as it was before the call: no output file
\* and no newly created target directory or parent.
C30_NothingCreated ==
    [][Failing => (fs_files' = fs_files /\ fs_dirs' = fs_dirs)]_vars

Ancestors(path) == {SubSeq(path, 1, n) : n \in 1..Len(path)}

\* C30 amended: a failing call writes and changes no file, but it has
\* created the target directory and its missing parents, and nothing else.
C30_OnlyDirectoriesCreated ==
    [][Failing =>
          /\ DOMAIN fs_files' = DOMAIN fs_files
          /\ \A q \in DOMAIN fs_files : fs_files'[q] = fs_files[q]
          /\ fs_dirs' = fs_dirs \cup Ancestors(save_args.directory)]_vars

C30_Witness ==
    /\ saved.kind = "raise"
    /\ save_args.filename = <<"d">>
    /\ fs_dirs = {<<"out">>, <<"out", "ds">>}
    /\ fs_files = <<>>

----------------------------------------------------------------------------
(* Properties of the dispatch                                              *)

Apology == "Sorry, I don't know what you mean."

HasRun == ran.kind # "none"

\* C18: after module load "unknown" is always a key of intent_funcs, and
\* run_intent("unknown") returns the apology with should_exit false.
C18_UnknownRegistered ==
    /\ "unknown" \in DOMAIN intent_funcs
    /\ (HasRun /\ ran.name = "unknown") =>
           /\ ran.kind = "return"
           /\ ran.response = Apology
           /\ ran.should_exit = FALSE

C18_Witness ==
    /\ ran.name = "unknown"
    /\ ran.args = <<>>
    /\ ran.kind = "return"
    /\ ran.response = Apology

\* C19: run_intent with a name that is not registered runs the unknown
\* intent: it returns the apology with should_exit false and does not
\* raise, with or without extra arguments.
C19_UnregisteredRunsUnknown ==
    (HasRun /\ ran.name \notin DOMAIN intent_funcs) =>
        /\ ran.kind = "return"
        /\ ran.response = Apology
        /\ ran.should_exit = FALSE

\* C20: run_intent(name, text) on a registered intent passes the text to
\* the handler iff the entry requires text, a handler that does not is
\* called without argument, and the second component of the result is the
\* entry's should_exit, true only for goodbye.  The call ends otherwise
\* only when the handler meets an exception of the outside world.
C20_TextIffRequired ==
    (HasRun /\ ran.name \in DOMAIN intent_funcs /\ Len(ran.args) = 1) =>
        LET entry == intent_funcs[ran.name]
            last == handler_calls[Len(handler_calls)]
        IN /\ last.func = ran.name
           /\ (last.args = ran.args) <=> entry.requires_text
           /\ ~entry.requires_text => last.args = <<>>
           /\ ran.kind = "raise" => world # NoWorld
           /\ ran.kind = "return" =>
                  /\ ran.should_exit = entry.should_exit
                  /\ ran.should_exit <=> (ran.name = "goodbye")

C20_Witness ==
    /\ ran.name = "greeting"
    /\ ran.args = <<"open chrome">>
    /\ ran.kind = "return"
    /\ ran.response = "Hello!"
    /\ handler_calls[Len(handler_calls)] = [func |-> "greeting", args |-> <<>>]

\* C25: a ConnectionError or a KeyError raised while fetching today's tasks
\* does not leave run_intent("show_todo_list"): the handler returns "Sorry,
\* I couldn't get your tasks. <error>" with should_exit false, without
\* reading the task list the error value does not have; any other exception
\* reaches the caller.
C25_TodoErrorsBecomeResponses ==
    (HasRun /\ ran.name = "show_todo_list" /\ world.of = "todo" /\ world.raises # "") =>
        /\ world.raises = "requests.exceptions.ConnectionError" =>
               ran = [name |-> "show_todo_list", args |-> ran.args, kind |-> "return",
                      response |-> "Sorry, I couldn't get your tasks. Connection error: Check your internet connection.",
                      should_exit |-> FALSE]
        /\ world.raises = "KeyError" =>
               ran = [name |-> "show_todo_list", args |-> ran.args, kind |-> "return",
                      response |-> "Sorry, I couldn't get your tasks. API key error: Check your API key is setup correctly.",
                      should_exit |-> FALSE]
        /\ world.raises \notin {"requests.exceptions.ConnectionError", "KeyError"} =>
               (ran.kind = "raise" /\ ran.response = world.raises)

C25_Witness ==
    /\ ran.name = "show_todo_list"
    /\ world.of = "todo"
    /\ world.raises = "KeyError"
    /\ ran.kind = "return"
    /\ ran.response = "Sorry, I couldn't get your tasks. API key error: Check your API key is setup correctly."

\* what the claim expects a weather handler to answer to an outcome of the
\* weather API
ExpectedWeatherAnswer(name, w) ==
    IF w.http = "ConnectionError"
    THEN "Sorry, I couldn't get the weather for you. Check your connection and try again."
    ELSE IF w.cod.digits = "200"
    THEN (IF name = "current_weather"
          THEN "The weather in London is 10.0{DEGREES}C and clear sky."
          ELSE "The weather tomorrow in London will be 10.0{DEGREES}C and clear sky.")
    ELSE IF w.cod.digits = "401"
    THEN "The configured weather API key is invalid. Please check the 'ACE_WEATHER_KEY' environment variable."
    ELSE IF w.cod.digits = "404"
    THEN "Couldn't find weather data for that location (London). Check the spelling and try again."
    ELSE IF w.cod.digits = "429"
    THEN "The configured weather API key has been used too many times. Please wait and try again."
    ELSE "Sorry, I couldn't get the weather for you. Check your connection and try again."

\* C26: current_weather and tomorrow_weather return a response string with
\* should_exit false for every outcome of the weather API: no response gives
\* the connection apology, the codes "200", "401", "404" and "429" their
\* messages, and any other code the connection apology as well.
C26_WeatherAlwaysAnswers ==
    (HasRun /\ ran.name \in {"current_weather", "tomorrow_weather"}
        /\ world.of = "weather" /\ world.env = "ok") =>
        /\ ran.kind = "return"
        /\ ran.should_exit = FALSE
        /\ ran.response = ExpectedWeatherAnswer(ran.name, world)

C26_Witness ==
    /\ ran.name = "tomorrow_weather"
    /\ world.of = "weather" /\ world.env = "ok"
    /\ world.http = "body" /\ world.cod.digits = "500"
    /\ ran.kind = "return"
    /\ ran.response = "Sorry, I couldn't get the weather for you. Check your connection and try again."

----------------------------------------------------------------------------
(* Properties of the command line interface                                *)

\* the step that completes an iteration of CLI.run with a response
IterationReturns == cli_pc = "dispatch" /\ cli_result'.kind = "return"

\* the entries the step adds to the log of broadcasts
NewBroadcasts == {broadcasts'[j] : j \in (Len(broadcasts) + 1)..Len(broadcasts')}

\* C21: in every iteration of CLI.run the response text returned by
\* run_intent is broadcast to every output of the CLI before the next user
\* input is read.
C21_ResponseBroadcast ==
    [][IterationReturns =>
          \A i \in 1..Len(outputs) :
              \E b \in NewBroadcasts :
                  b.output = outputs[i] /\ b.message = cli_result'.response]_vars

\* the flag should_exit of the intent dispatched in this iteration
DispatchedExits == intent_funcs[pending.intent].should_exit

\* C22 as stated: the loop stops after an iteration exactly when the
\* dispatched intent has should_exit true; every iteration whose intent has
\* should_exit false is followed by another read of user input.
C22_StopsOnlyOnExit ==
    [][cli_pc = "dispatch" =>
          /\ DispatchedExits => cli_pc' = "done"
          /\ ~DispatchedExits => cli_pc' = "read"]_vars

\* C22 amended: the loop stops by break exactly after an iteration whose
\* intent has should_exit true; an iteration whose intent has should_exit
\* false is followed by another read when its handler returns, and ends the
\* loop with the handler's exception otherwise; an utterance classified as
\* goodbye leads to termination.
C22_StopsOnExitOrException ==
    /\ [][cli_pc = "dispatch" =>
             /\ DispatchedExits => cli_pc' = "done"
             /\ (~DispatchedExits /\ cli_result'.kind = "return") => cli_pc' = "read"
             /\ (~DispatchedExits /\ cli_result'.kind = "raise") => cli_pc' = "raised"]_vars
    /\ [][(cli_pc = "done" \/ cli_pc = "raised") => (cli_pc' = cli_pc)]_vars
    /\ ((cli_pc = "dispatch" /\ pending.intent = "goodbye") ~> (cli_pc = "done"))

C22_Witness ==
    /\ cli_pc = "done"
    /\ turns = MaxTurns
    /\ pending.intent = "goodbye"
    /\ cli_result.kind = "return"
    /\ cli_result.response = "Goodbye!"
    /\ cli_result.should_exit

\* the step that is a call of display_header
HeaderCall == cli_pc = "start" /\ cli_pc' = "read"

\* C27: display_header broadcasts nothing when show_header is false; when
\* it is true it broadcasts the header to every header output, in order,
\* with an empty prefix; every output's prefix is afterwards what it was
\* before the call.
C27_HeaderBroadcast ==
    [][HeaderCall =>
          /\ ~show_header => broadcasts' = broadcasts
          /\ show_header =>
                 broadcasts' = broadcasts \o
                     [i \in 1..Len(header_outputs) |->
                         [output |-> header_outputs[i], prefix |-> "", message |-> header]]
          /\ \A o \in OutputObjects : prefix'[o] = prefix[o]]_vars

C27_Witness ==
    /\ cli_pc = "read"
    /\ show_header
    /\ header = "ACE v1"
    /\ broadcasts = <<[output |-> "text", prefix |-> "", message |-> "ACE v1"],
                      [output |-> "speech", prefix |-> "", message |-> "ACE v1"]>>
    /\ prefix["text"] = "ACE:"

----------------------------------------------------------------------------
(* Properties of the graphical interface                                   *)

\* C28: every message sent through _send_message is answered by exactly
\* one _respond call that classifies the text of that same message, also
\* when a second message is sent before the delayed _respond of the first
\* has run; _respond never classifies a line that ACE wrote to the chat
\* box.
C28_EachMessageAnswered ==
    /\ Len(classified) <= Len(sent)
    /\ \A k \in 1..Len(classified) :
           /\ k <= Len(sent) => classified[k].text = sent[k]
           /\ classified[k].mark # "ACE: "

----------------------------------------------------------------------------
(* Properties of the weather cache                                         *)

\* call j comes after call i, with the same arguments, less than three
\* hours later
WithinTTL(i, j) ==
    /\ i < j
    /\ history[i].key = history[j].key
    /\ history[j].time < history[i].time + 3

OthersBetween(i, j) ==
    {history[m].key : m \in (i + 1)..(j - 1)} \ {history[i].key}

====
